---- MODULE Spec2Model ----
(***************************************************************************)
(* A model of the weather front end of src/src/App.js: the forecast        *)
(* reducer getDailyForecast, the unit conversions toTemp / toWind, the     *)
(* description lookup getDescription, and the search handler               *)
(* searchLocation with the component state it writes and the background    *)
(* video it resets.                                                        *)
(*                                                                         *)
(* Three specifications share the variables:                               *)
(*   SpecReduce  feeds getDailyForecast one record at a time;              *)
(*   SpecConvert calls toTemp / toWind on bounded inputs;                  *)
(*   Spec        is the component: typing, searches, unit toggles and the  *)
(*               video element.                                            *)
(***************************************************************************)
EXTENDS Integers, Sequences, FiniteSets, TLC

VARIABLES
    \* SpecReduce
    list,           \* getDailyForecast: the argument (forecastRes.data.list)
    daily,          \* getDailyForecast: the value returned for list
    \* SpecConvert
    cFn,            \* the conversion called: "toTemp" or "toWind"
    cUnit,          \* the value of the unit state it reads
    cVal,           \* its argument, a whole number of degrees or of mph
    cPc,            \* "call" before the call, "return" once it has returned
    cOut,           \* the double returned
    \* Spec: the state of the App component
    data,           \* useState({}): the current weather
    location,       \* useState(''): the text of the search input
    locationInfo,   \* useState({}): the geocode entry of the place shown
    forecastData,   \* useState([]): the daily forecast
    videoLoaded,    \* useState(false)
    unit,           \* useState('imperial')
    \* Spec: around the component
    searches,       \* the calls of searchLocation, each with its position
    video,          \* the <video> element in the page, <<>> when there is none
    mounted         \* FALSE once a render has thrown and React removed the app

reduceVars == <<list, daily>>
convertVars == <<cFn, cUnit, cVal, cPc, cOut>>
appVars == <<data, location, locationInfo, forecastData, videoLoaded, unit,
             searches, video, mounted>>
vars == <<reduceVars, convertVars, appVars>>

(***************************************************************************)
(* Bounds of the model.                                                    *)
(***************************************************************************)
\* longest forecast list fed to getDailyForecast
MaxList == 6
\* toTemp is called on -MaxTemp .. MaxTemp degrees
MaxTemp == 212
\* toWind is called on 0 .. MaxWind mph
MaxWind == 60
\* the calls of searchLocation in one run
MaxSearches == 2

(***************************************************************************)
(* Timestamps.  A dt_txt string is modelled as the sequence of its parts,  *)
(* the separator " " being a part of its own: "2025-08-08 03:00:00" is     *)
(* <<"2025-08-08", " ", "03:00:00">> and "bad-timestamp" is                *)
(* <<"bad-timestamp">>.                                                    *)
(***************************************************************************)
DateStr ==
    <<"2025-08-08", "2025-08-09", "2025-08-10", "2025-08-11",
      "2025-08-12", "2025-08-13", "2025-08-14", "2025-08-15">>

TimeStr ==
    <<"00:00:00", "03:00:00", "06:00:00", "09:00:00",
      "12:00:00", "15:00:00", "18:00:00", "21:00:00">>

BadStamp == <<"bad-timestamp">>

\* the sample at position n of a feed, on day d: its dt_txt is well formed
GoodStamp(d, n) == <<DateStr[d], " ", TimeStr[n]>>

\* One record of the forecast list.  dt is the record's own time stamp
\* number, different for every record of a list.
Sample(n, stamp, temp) ==
    [dt |-> n, dt_txt |-> stamp, main |-> [temp |-> temp]]

(***************************************************************************)
(* String.prototype.split(" ")[0]: the parts before the first separator.   *)
(* A string without separator is its own first piece.                      *)
(***************************************************************************)
RECURSIVE FirstPiece(_)
FirstPiece(s) ==
    IF s = <<>> THEN <<>>
    ELSE IF Head(s) = " " THEN <<>>
    ELSE <<Head(s)>> \o FirstPiece(Tail(s))

\* dailyMap is an object: its own properties in creation order, each a
\* [key, value] pair.  The keys made here are never canonical array
\* indices, so the object enumerates them in creation order.
HasKey(dailyMap, key) == \E i \in 1..Len(dailyMap) : dailyMap[i].key = key

\* a callback that stores every item under its date: the last one stays
VisitItem_LastWins(dailyMap, item) ==
    LET date == FirstPiece(item.dt_txt)
    IN  IF ~HasKey(dailyMap, date)
        THEN Append(dailyMap, [key |-> date, value |-> item])
        ELSE [i \in 1..Len(dailyMap) |->
                 IF dailyMap[i].key = date
                 THEN [key |-> date, value |-> item]
                 ELSE dailyMap[i]]

\* the body of the forEach callback, for one item
VisitItem(dailyMap, item) ==
    LET date == FirstPiece(item.dt_txt)
    IN  IF ~HasKey(dailyMap, date)
        THEN Append(dailyMap, [key |-> date, value |-> item])
        ELSE dailyMap

\* list.forEach(...), left to right, starting from dailyMap
RECURSIVE ForEach(_, _)
ForEach(dailyMap, items) ==
    IF items = <<>> THEN dailyMap
    ELSE ForEach(VisitItem(dailyMap, Head(items)), Tail(items))

\* the values in the reverse of creation order
ObjectValues_Reversed(dailyMap) ==
    [i \in 1..Len(dailyMap) |-> dailyMap[Len(dailyMap) + 1 - i].value]

ObjectValues(dailyMap) == [i \in 1..Len(dailyMap) |-> dailyMap[i].value]

\* the number of entries a forecast shows
DailyLimit == 5

\* a slice that forgets its end
Slice_NoEnd(s, from, to) == SubSeq(s, from + 1, Len(s))

\* Array.prototype.slice(from, to), for 0 <= from <= to
Slice(s, from, to) ==
    SubSeq(s, from + 1, IF to < Len(s) THEN to ELSE Len(s))

getDailyForecast(items) ==
    Slice(ObjectValues(ForEach(<<>>, items)), 0, DailyLimit)

\* the calendar days a forecast list may mention: one more than are shown
NumDates == DailyLimit + 1

\* the timestamps the record at position n of a list may carry
Stamps(n) == {GoodStamp(d, n) : d \in 1..NumDates} \cup {BadStamp}

(***************************************************************************)
(* Numbers.  Every number of the program is an IEEE-754 double.  A double  *)
(* is modelled exactly, as [neg, mant, exp] standing for                   *)
(* (-1)^neg * mant * 2^exp with mant a natural number of exactly 53        *)
(* binary digits (zero: mant = 0).  Naturals of that width are kept as     *)
(* sequences of digits in base 2^15, least significant first, without      *)
(* leading zero digit.  Subnormals, infinities and NaN lie far outside the *)
(* temperatures and wind speeds handled here and are not modelled; nor is  *)
(* the sign of zero.                                                       *)
(***************************************************************************)
\* binary digits of a double's significand
Precision == 53

DigitBits == 15
Base == 2 ^ DigitBits

RECURSIVE Digits(_)
Digits(n) == IF n = 0 THEN <<>> ELSE <<n % Base>> \o Digits(n \div Base)

\* without leading zero digits (they sit at the end of the sequence)
RECURSIVE Trim(_)
Trim(ds) ==
    IF ds # <<>> /\ ds[Len(ds)] = 0 THEN Trim(SubSeq(ds, 1, Len(ds) - 1)) ELSE ds

RECURSIVE AddCarry(_, _, _)
AddCarry(xa, ya, carry) ==
    IF xa = <<>> /\ ya = <<>> THEN (IF carry = 0 THEN <<>> ELSE <<carry>>)
    ELSE LET t == (IF xa = <<>> THEN 0 ELSE Head(xa))
                    + (IF ya = <<>> THEN 0 ELSE Head(ya)) + carry
         IN  <<t % Base>> \o AddCarry(IF xa = <<>> THEN <<>> ELSE Tail(xa),
                                      IF ya = <<>> THEN <<>> ELSE Tail(ya),
                                      t \div Base)

AddN(xn, yn) == AddCarry(xn, yn, 0)

\* xs - ys, for xs >= ys
RECURSIVE SubBorrow(_, _, _)
SubBorrow(xs, ys, borrow) ==
    IF xs = <<>> THEN <<>>
    ELSE LET t == Head(xs) - (IF ys = <<>> THEN 0 ELSE Head(ys)) - borrow
         IN  <<IF t < 0 THEN t + Base ELSE t>>
                 \o SubBorrow(Tail(xs), IF ys = <<>> THEN <<>> ELSE Tail(ys),
                              IF t < 0 THEN 1 ELSE 0)

SubN(xm, ym) == Trim(SubBorrow(xm, ym, 0))

\* xk * k, for a digit k
RECURSIVE MulCarry(_, _, _)
MulCarry(xk, k, carry) ==
    IF xk = <<>> THEN (IF carry = 0 THEN <<>> ELSE <<carry>>)
    ELSE LET t == Head(xk) * k + carry
         IN  <<t % Base>> \o MulCarry(Tail(xk), k, t \div Base)

MulSmall(xj, kj) == IF kj = 0 THEN <<>> ELSE MulCarry(xj, kj, 0)

RECURSIVE MulN(_, _)
MulN(xp, yp) ==
    IF xp = <<>> \/ yp = <<>> THEN <<>>
    ELSE LET rest == MulN(xp, Tail(yp))
         IN  AddN(MulSmall(xp, Head(yp)),
                  IF rest = <<>> THEN <<>> ELSE <<0>> \o rest)

\* lo < hi
LessN(lo, hi) ==
    IF Len(lo) # Len(hi) THEN Len(lo) < Len(hi)
    ELSE \E i \in 1..Len(lo) :
            /\ lo[i] < hi[i]
            /\ \A j \in (i + 1)..Len(lo) : lo[j] = hi[j]

\* the number of binary digits
BitLen(xb) ==
    IF xb = <<>> THEN 0
    ELSE DigitBits * (Len(xb) - 1)
           + (CHOOSE b \in 1..DigitBits :
                 2 ^ (b - 1) <= xb[Len(xb)] /\ xb[Len(xb)] < 2 ^ b)

\* xl * 2^count
ShiftLeft(xl, count) ==
    IF xl = <<>> THEN <<>>
    ELSE [i \in 1..(count \div DigitBits) |-> 0]
            \o MulSmall(xl, 2 ^ (count % DigitBits))

\* xr \div 2^count
ShiftRight(xr, count) ==
    LET whole == count \div DigitBits
        part  == count % DigitBits
        digit(i) == IF i <= Len(xr) THEN xr[i] ELSE 0
    IN  Trim([i \in 1..(Len(xr) - whole) |->
                (digit(i + whole) \div 2 ^ part)
                  + (digit(i + whole + 1) % 2 ^ part) * 2 ^ (DigitBits - part)])

\* the greatest digit g with g * dd <= rr, found bit by bit from 2^bit down
RECURSIVE QuotientDigit(_, _, _, _)
QuotientDigit(rr, dd, bit, g) ==
    IF bit < 0 THEN g
    ELSE IF LessN(rr, MulSmall(dd, g + 2 ^ bit))
         THEN QuotientDigit(rr, dd, bit - 1, g)
         ELSE QuotientDigit(rr, dd, bit - 1, g + 2 ^ bit)

\* long division, from digit i of nn downwards: acc holds the quotient and
\* the remainder of the digits above i
RECURSIVE DivStep(_, _, _, _)
DivStep(nn, dv, i, acc) ==
    IF i = 0 THEN acc
    ELSE LET r == Trim(<<nn[i]>> \o acc.r)
             g == QuotientDigit(r, dv, DigitBits - 1, 0)
         IN  DivStep(nn, dv, i - 1,
                     [q |-> <<g>> \o acc.q, r |-> SubN(r, MulSmall(dv, g))])

\* [q, r] with nd = q * dd + r and r < dd
DivMod(nd, dd) ==
    LET res == DivStep(nd, dd, Len(nd), [q |-> <<>>, r |-> <<>>])
    IN  [q |-> Trim(res.q), r |-> res.r]

Zero == [neg |-> FALSE, mant |-> <<>>, exp |-> 0]

\* The double nearest to (-1)^neg * (n / d) * 2^e, ties to the even
\* significand: the rounding every arithmetic operation and every decimal
\* literal goes through.
RoundToDouble(neg, n, d, e) ==
    IF n = <<>> THEN Zero
    ELSE LET want  == Precision + 2 + BitLen(d)
             s     == IF BitLen(n) < want THEN want - BitLen(n) ELSE 0
             qr    == DivMod(ShiftLeft(n, s), d)
             drop  == BitLen(qr.q) - Precision
             \* the significand followed by the first digit dropped
             keep  == ShiftRight(qr.q, drop - 1)
             half  == keep[1] % 2 = 1
             rest  == qr.r # <<>> \/ ShiftLeft(keep, drop - 1) # qr.q
             top   == ShiftRight(keep, 1)
             up    == half /\ (rest \/ top[1] % 2 = 1)
             m     == IF up THEN AddN(top, <<1>>) ELSE top
         IN  IF BitLen(m) > Precision
             THEN [neg |-> neg, mant |-> ShiftRight(m, 1), exp |-> e - s + drop + 1]
             ELSE [neg |-> neg, mant |-> m, exp |-> e - s + drop]

\* the double of an integer
FromInt(k) == RoundToDouble(k < 0, Digits(IF k < 0 THEN 0 - k ELSE k), <<1>>, 0)

\* a decimal literal such as 2.23694, given as 223694 / 100000
FromDecimal(units, scale) == RoundToDouble(FALSE, Digits(units), Digits(scale), 0)

DoubleMul(p, q) ==
    RoundToDouble(p.neg # q.neg, MulN(p.mant, q.mant), <<1>>, p.exp + q.exp)

\* p / q, for q not zero
DoubleDiv(pd, qd) ==
    RoundToDouble(pd.neg # qd.neg, pd.mant, qd.mant, pd.exp - qd.exp)

\* pa - qa: the exact difference, rounded once
DoubleSub(pa, qa) ==
    LET low == IF pa.exp < qa.exp THEN pa.exp ELSE qa.exp
        pm  == ShiftLeft(pa.mant, pa.exp - low)
        qm  == ShiftLeft(qa.mant, qa.exp - low)
    IN  IF pa.neg # qa.neg
        THEN RoundToDouble(pa.neg, AddN(pm, qm), <<1>>, low)
        ELSE IF LessN(pm, qm)
             THEN RoundToDouble(~pa.neg, SubN(qm, pm), <<1>>, low)
             ELSE RoundToDouble(pa.neg, SubN(pm, qm), <<1>>, low)


(***************************************************************************)
(* The unit conversions.  Each reads the unit state, given here as the     *)
(* first parameter.                                                        *)
(***************************************************************************)
\* the quotient 5/9 that toTemp multiplies by
FiveNinths == DoubleDiv(FromInt(5), FromInt(9))

\* the literal 2.23694
MphPerMs == FromDecimal(223694, 100000)

\* f - 32 * (5/9): the subtraction without its parentheses
toTemp_NoParens(u, f) ==
    IF u = "imperial" THEN f
    ELSE DoubleSub(f, DoubleMul(FromInt(32), FiveNinths))

toTemp(u, f) ==
    IF u = "imperial" THEN f ELSE DoubleMul(DoubleSub(f, FromInt(32)), FiveNinths)

toWind(u, mph) ==
    IF u = "imperial" THEN mph ELSE DoubleDiv(mph, MphPerMs)

unitSymbol(u) == IF u = "imperial" THEN "F" ELSE "C"

windUnit(u) == IF u = "imperial" THEN "MPH" ELSE "m/s"

\* the values the unit state takes
Units == {"imperial", "metric"}

\* what a caller may hand to a conversion: the two units, and the third
\* unit system of the weather service, which the component does not know
UnitInputs == Units \cup {"standard"}


(***************************************************************************)
(* The weather service behind the proxy, as the component sees it.         *)
(* Objects are records whose fields are the properties present; arrays     *)
(* are sequences, so weather[0] of the code is weather[1] here.            *)
(***************************************************************************)
\* the value of a missing array element, such as geoRes.data[0] of []
Undefined == [undefined |-> TRUE]

Cities == {"London", "Paris"}

\* the texts the search input may hold: nothing, two places the geocoder
\* knows and one it does not
Queries == {""} \cup Cities \cup {"Atlantis"}

Geo(city) ==
    IF city = "London"
    THEN [name |-> "London", lat |-> 51, lon |-> 0, country |-> "GB"]
    ELSE [name |-> "Paris", lat |-> 48, lon |-> 2, country |-> "FR"]

CityAt(lat, lon) == CHOOSE c \in Cities : Geo(c).lat = lat /\ Geo(c).lon = lon

\* The weather at a place, in the unit system asked for (units: unit of the
\* proxy): degrees Fahrenheit and miles per hour for imperial, degrees
\* Celsius and metres per second for metric.
ApiTemp(city, units) ==
    IF city = "London" THEN (IF units = "imperial" THEN 50 ELSE 10)
    ELSE (IF units = "imperial" THEN 68 ELSE 20)

ApiWind(city, units) ==
    IF city = "London" THEN (IF units = "imperial" THEN 11 ELSE 5)
    ELSE (IF units = "imperial" THEN 22 ELSE 10)

\* the main condition codes a reply may carry: the seven the component has
\* a phrase and a video for, one it has none for, one in another case
Conditions ==
    {"Clear", "Clouds", "Rain", "Thunderstorm", "Snow", "Drizzle", "Mist",
     "Tornado", "rain"}

\* GET /geocode: the body of a successful reply, a list of at most one
\* entry.  An empty location is refused by the proxy (status 400).
GeocodeReplies(query) ==
    IF query = "" THEN {}
    ELSE IF query \in Cities THEN {<<Geo(query)>>}
    ELSE {<<>>}

\* GET /forecast: the body of a successful reply
ForecastReply(lat, lon, units) ==
    LET temp == ApiTemp(CityAt(lat, lon), units)
    IN  [list |-> <<Sample(1, GoodStamp(1, 7), temp),
                    Sample(2, GoodStamp(1, 8), temp),
                    Sample(3, GoodStamp(2, 1), temp)>>]

\* GET /weather: the bodies a successful reply may have
WeatherReplies(lat, lon, units) ==
    LET city == CityAt(lat, lon)
    IN  {[name |-> city,
          main |-> [temp |-> ApiTemp(city, units)],
          wind |-> [speed |-> ApiWind(city, units)],
          weather |-> <<[main |-> c]>>] : c \in Conditions}

(***************************************************************************)
(* What a render derives from the state.                                   *)
(***************************************************************************)
condition == IF "weather" \in DOMAIN data THEN data.weather[1].main ELSE ""

\* a lookup that takes "rain" for "Rain"
getDescription_AnyCase(weather) ==
    IF weather = <<>> THEN ""
    ELSE CASE condition = "Clear" -> "It's sunny today!"
           [] condition = "Clouds" -> "It's cloudy today!"
           [] condition \in {"Rain", "rain"} -> "It's rainy today!"
           [] condition = "Thunderstorm" -> "Thunderstorms ahead"
           [] condition = "Snow" -> "It's snowing today!"
           [] condition = "Drizzle" -> "It's drizzling today!"
           [] condition = "Mist" -> "It's misty today!"
           [] OTHER -> "Weather: " \o weather[1].main

\* The emoji that ends each phrase is left out.  A weather that is absent
\* or has no first element is the empty sequence: the one call, in the
\* render, passes data.weather and only where data has one.
getDescription(weather) ==
    IF weather = <<>> THEN ""
    ELSE CASE condition = "Clear" -> "It's sunny today!"
           [] condition = "Clouds" -> "It's cloudy today!"
           [] condition = "Rain" -> "It's rainy today!"
           [] condition = "Thunderstorm" -> "Thunderstorms ahead"
           [] condition = "Snow" -> "It's snowing today!"
           [] condition = "Drizzle" -> "It's drizzling today!"
           [] condition = "Mist" -> "It's misty today!"
           [] OTHER -> "Weather: " \o weather[1].main

\* the keys of videoMap
videoMap ==
    {"Clear", "Clouds", "Rain", "Thunderstorm", "Snow", "Drizzle", "Mist"}

cityName ==
    IF "name" \in DOMAIN data THEN data.name
    ELSE IF "city" \in DOMAIN data THEN data.city.name
    ELSE ""

videoKey == condition \o "-" \o cityName

\* the page has a <video> element
videoShown == condition # "" /\ condition \in videoMap

\* rendering reads locationInfo.name, which throws on undefined
renderThrows == locationInfo = Undefined

\* The <video> element after a render.  React keeps the element of the
\* previous render while the key is the same and creates a new one, which
\* has yet to load its data, when the key has changed.
RenderVideo ==
    video' =
        IF ~mounted' \/ ~videoShown' THEN <<>>
        ELSE IF video # <<>> /\ video.key = videoKey' THEN video
        ELSE [key |-> videoKey', pending |-> TRUE]

\* the render that follows the state updates of a step
Render ==
    /\ mounted' = (mounted /\ ~renderThrows')
    /\ RenderVideo

(***************************************************************************)
(* The component.                                                          *)
(***************************************************************************)
Idle == [pc |-> "idle"]

\* A call of searchLocation is a record of the location and unit of the
\* render whose handler it is, the geocode entry once it has one, the
\* alerts it has raised and, in `failed`, the request of it that the
\* service did not answer with a usable reply ("" while there is none).
InFlight(s) == s.pc \in {"geocode", "forecast", "weather"}

InitApp ==
    /\ data = <<>>
    /\ location = ""
    /\ locationInfo = <<>>
    /\ forecastData = <<>>
    /\ videoLoaded = FALSE
    /\ unit = "imperial"
    /\ searches = [i \in 1..MaxSearches |-> Idle]
    /\ video = <<>>
    /\ mounted = TRUE

\* onChange of the search input
Type(text) ==
    /\ mounted
    /\ text # location
    /\ location' = text
    /\ UNCHANGED <<data, locationInfo, forecastData, videoLoaded, unit,
                   searches, video, mounted, reduceVars, convertVars>>

\* onClick of the unit toggle, which is shown once data.main exists
ToggleUnit ==
    /\ mounted
    /\ "main" \in DOMAIN data
    /\ unit' = (IF unit = "imperial" THEN "metric" ELSE "imperial")
    /\ UNCHANGED <<data, location, locationInfo, forecastData, videoLoaded,
                   searches, video, mounted, reduceVars, convertVars>>

\* onLoadedData of the <video> element, fired once by an element when its
\* first frame is there
LoadedData ==
    /\ mounted
    /\ video # <<>>
    /\ video.pending
    /\ videoLoaded' = TRUE
    /\ video' = [video EXCEPT !.pending = FALSE]
    /\ UNCHANGED <<data, location, locationInfo, forecastData, unit,
                   searches, mounted, reduceVars, convertVars>>

\* searchLocation, from the Enter key to the first await
PressEnter(i) ==
    /\ mounted
    /\ searches[i] = Idle
    /\ \A j \in 1..(i - 1) : searches[j] # Idle
    /\ videoLoaded' = FALSE
    /\ searches' = [searches EXCEPT ![i] =
                       [pc |-> "geocode", location |-> location,
                        unit |-> unit, geo |-> Undefined,
                        alerts |-> 0, failed |-> ""]]
    /\ UNCHANGED <<data, location, locationInfo, forecastData, unit>>
    /\ Render
    /\ UNCHANGED <<reduceVars, convertVars>>

\* a catch block that logs the error and raises no alert
Caught_Silent(s) == [s EXCEPT !.pc = "done"]

\* the catch block of a call: the alert, and the call is over
Caught(s) == [s EXCEPT !.pc = "done", !.alerts = @ + 1]

\* setLocation(''): a component that is no longer there keeps no state
ClearInput == location' = (IF mounted THEN "" ELSE location)

\* a request of call i is answered with an error, or not at all
RequestFails(i) ==
    /\ InFlight(searches[i])
    /\ searches' = [searches EXCEPT ![i] = Caught([@ EXCEPT !.failed = searches[i].pc])]
    /\ ClearInput
    /\ UNCHANGED <<data, locationInfo, forecastData, videoLoaded, unit>>
    /\ Render
    /\ UNCHANGED <<reduceVars, convertVars>>

\* the geocode request of call i is answered
GeocodeReturns(i) ==
    /\ searches[i].pc = "geocode"
    /\ \E body \in GeocodeReplies(searches[i].location) :
          LET geo == IF body = <<>> THEN Undefined ELSE body[1]
          IN  /\ locationInfo' = (IF mounted THEN geo ELSE locationInfo)
              /\ IF geo = Undefined
                 THEN \* geo.lat throws, inside the try statement
                      /\ searches' = [searches EXCEPT ![i] =
                                         Caught([@ EXCEPT !.failed = "geocode"])]
                      /\ ClearInput
                 ELSE /\ searches' = [searches EXCEPT ![i] =
                                         [@ EXCEPT !.pc = "forecast", !.geo = geo]]
                      /\ UNCHANGED location
    /\ UNCHANGED <<data, forecastData, videoLoaded, unit>>
    /\ Render
    /\ UNCHANGED <<reduceVars, convertVars>>

\* the forecast request of call i is answered
ForecastReturns(i) ==
    /\ searches[i].pc = "forecast"
    /\ LET s == searches[i]
           body == ForecastReply(s.geo.lat, s.geo.lon, s.unit)
       IN  forecastData' =
               (IF mounted THEN getDailyForecast(body.list) ELSE forecastData)
    /\ searches' = [searches EXCEPT ![i] = [@ EXCEPT !.pc = "weather"]]
    /\ UNCHANGED <<data, location, locationInfo, videoLoaded, unit>>
    /\ Render
    /\ UNCHANGED <<reduceVars, convertVars>>

\* the weather request of call i is answered
WeatherReturns(i) ==
    /\ searches[i].pc = "weather"
    /\ LET s == searches[i]
       IN  \E body \in WeatherReplies(s.geo.lat, s.geo.lon, s.unit) :
              data' = (IF mounted THEN body ELSE data)
    /\ searches' = [searches EXCEPT ![i] = [@ EXCEPT !.pc = "done"]]
    /\ ClearInput
    /\ UNCHANGED <<locationInfo, forecastData, videoLoaded, unit>>
    /\ Render
    /\ UNCHANGED <<reduceVars, convertVars>>


(***************************************************************************)
(* The specifications.                                                     *)
(***************************************************************************)
IdleReduce == list = <<>> /\ daily = <<>>

IdleConvert ==
    /\ cFn = "toTemp"
    /\ cUnit = "imperial"
    /\ cVal = 0
    /\ cPc = "call"
    /\ cOut = Zero

\* Spec: the component
Init == InitApp /\ IdleReduce /\ IdleConvert

Next ==
    \/ \E text \in Queries : Type(text)
    \/ ToggleUnit
    \/ LoadedData
    \/ \E i \in 1..MaxSearches : PressEnter(i)
    \/ \E i \in 1..MaxSearches : RequestFails(i)
    \/ \E i \in 1..MaxSearches : GeocodeReturns(i)
    \/ \E i \in 1..MaxSearches : ForecastReturns(i)
    \/ \E i \in 1..MaxSearches : WeatherReturns(i)

Spec == Init /\ [][Next]_vars

\* SpecReduce: the reducer fed one record at a time
InitReduce ==
    /\ list = <<>>
    /\ daily = getDailyForecast(<<>>)
    /\ InitApp
    /\ IdleConvert

\* one more record arrives and the list is reduced again
Feed ==
    /\ Len(list) < MaxList
    /\ \E stamp \in Stamps(Len(list) + 1) :
         list' = Append(list, Sample(Len(list) + 1, stamp, 50))
    /\ daily' = getDailyForecast(list')
    /\ UNCHANGED <<convertVars, appVars>>

NextReduce == Feed

SpecReduce == InitReduce /\ [][NextReduce]_vars

\* SpecConvert: one call of a conversion
InitConvert ==
    /\ cFn \in {"toTemp", "toWind"}
    /\ cUnit \in UnitInputs
    /\ cVal \in (IF cFn = "toTemp" THEN (0 - MaxTemp)..MaxTemp ELSE 0..MaxWind)
    /\ cPc = "call"
    /\ cOut = Zero
    /\ InitApp
    /\ IdleReduce

CallToTemp ==
    /\ cPc = "call"
    /\ cFn = "toTemp"
    /\ cOut' = toTemp(cUnit, FromInt(cVal))
    /\ cPc' = "return"
    /\ UNCHANGED <<cFn, cUnit, cVal, reduceVars, appVars>>

CallToWind ==
    /\ cPc = "call"
    /\ cFn = "toWind"
    /\ cOut' = toWind(cUnit, FromInt(cVal))
    /\ cPc' = "return"
    /\ UNCHANGED <<cFn, cUnit, cVal, reduceVars, appVars>>

NextConvert == CallToTemp \/ CallToWind

SpecConvert == InitConvert /\ [][NextConvert]_vars

(***************************************************************************)
(* Properties of getDailyForecast, checked under SpecReduce.               *)
(***************************************************************************)
Min(a, b) == IF a < b THEN a ELSE b

\* "YYYY-MM-DD HH:MM:SS": a date, the separator, a time
WellFormed(stamp) ==
    /\ Len(stamp) = 3
    /\ stamp[2] = " "
    /\ \E d \in 1..Len(DateStr) : stamp[1] = DateStr[d]
    /\ \E t \in 1..Len(TimeStr) : stamp[3] = TimeStr[t]

AllWellFormed(items) == \A i \in 1..Len(items) : WellFormed(items[i].dt_txt)

\* the date component of a timestamp: what precedes its first space, the
\* whole timestamp when it has none
DateComponent(stamp) ==
    LET spaces == {i \in 1..Len(stamp) : stamp[i] = " "}
    IN  IF spaces = {} THEN stamp
        ELSE SubSeq(stamp, 1, (CHOOSE i \in spaces : \A j \in spaces : i <= j) - 1)

DateComponents(items) ==
    {DateComponent(items[i].dt_txt) : i \in 1..Len(items)}

\* the position in items of the first sample that carries date
FirstIndex(items, date) ==
    CHOOSE i \in 1..Len(items) :
        /\ DateComponent(items[i].dt_txt) = date
        /\ \A j \in 1..(i - 1) : DateComponent(items[j].dt_txt) # date

\* C1: for a list of samples with well-formed timestamps, the empty list
\* included, getDailyForecast returns min(number of distinct dates, 5)
\* entries: no padding, never more than 5.
C1_Length ==
    AllWellFormed(list) =>
        Len(daily) = Min(Cardinality(DateComponents(list)), 5)

\* C1 witness: six distinct well-formed dates were fed and 5 entries came out
C1_Witness ==
    /\ AllWellFormed(list)
    /\ Cardinality(DateComponents(list)) = 6
    /\ Len(daily) = 5

\* C2: every entry returned is a sample of the input, namely the first
\* sample in input order that carries its date component.
C2_FirstOfDate ==
    \A i \in 1..Len(daily) :
        \E j \in 1..Len(list) :
            /\ daily[i] = list[j]
            /\ j = FirstIndex(list, DateComponent(list[j].dt_txt))

\* C2 witness: a date occurs twice in the input, the second time after
\* another date, and the entry returned for it is the earlier sample
C2_Witness ==
    /\ Len(list) >= 3
    /\ DateComponent(list[1].dt_txt) = DateComponent(list[3].dt_txt)
    /\ DateComponent(list[1].dt_txt) # DateComponent(list[2].dt_txt)
    /\ Len(daily) >= 2
    /\ daily[1] = list[1]
    /\ daily[2] = list[2]

\* the day number of a date component; a text that is no date sorts after
\* every date, as "bad-timestamp" does after "2025-..."
DayRank(date) ==
    IF \E d \in 1..Len(DateStr) : date = <<DateStr[d]>>
    THEN CHOOSE d \in 1..Len(DateStr) : date = <<DateStr[d]>>
    ELSE Len(DateStr) + 1

\* the time of day of a timestamp, for the comparison of two timestamps;
\* a timestamp without a time has none
TimeRank(stamp) ==
    IF WellFormed(stamp)
    THEN CHOOSE t \in 1..Len(TimeStr) : stamp[3] = TimeStr[t]
    ELSE 0

\* items is sorted by ascending timestamp
SortedByTimestamp(items) ==
    \A i \in 1..(Len(items) - 1) :
        LET di == DayRank(DateComponent(items[i].dt_txt))
            dj == DayRank(DateComponent(items[i + 1].dt_txt))
        IN  \/ di < dj
            \/ /\ di = dj
               /\ TimeRank(items[i].dt_txt) <= TimeRank(items[i + 1].dt_txt)

\* C3: the entries returned are those of the first 5 dates to appear in the
\* input, in the order in which those dates first appear; so for an input
\* sorted by ascending timestamp the output is sorted by ascending date.
C3_Order ==
    LET dates == [k \in 1..Len(list) |-> DateComponent(list[k].dt_txt)]
        \* the positions at which a date appears for the first time
        firsts == {k \in 1..Len(list) : \A j \in 1..(k - 1) : dates[j] # dates[k]}
        \* where in the input the i-th entry's date first appears
        pos == [i \in 1..Len(daily) |->
                  CHOOSE k \in firsts : dates[k] = DateComponent(daily[i].dt_txt)]
    IN  /\ \A i \in 1..Len(daily) :
              \E k \in firsts : dates[k] = DateComponent(daily[i].dt_txt)
        /\ \A i \in 1..(Len(daily) - 1) : pos[i] < pos[i + 1]
        \* no first appearance before the last entry's is left out
        /\ daily # <<>> =>
              Cardinality({k \in firsts : k <= pos[Len(daily)]}) = Len(daily)
        /\ Len(daily) = Min(Cardinality(firsts), 5)
        /\ SortedByTimestamp(list) =>
              \A i \in 1..(Len(daily) - 1) :
                  DayRank(DateComponent(daily[i].dt_txt))
                      < DayRank(DateComponent(daily[i + 1].dt_txt))

\* C3 witness: an unsorted input (a later day first) whose output follows
\* the input's order, not the calendar's
C3_Witness ==
    /\ Len(list) >= 3
    /\ Len(daily) = 3
    /\ DayRank(DateComponent(daily[1].dt_txt)) > DayRank(DateComponent(daily[2].dt_txt))
    /\ DayRank(DateComponent(daily[2].dt_txt)) < DayRank(DateComponent(daily[3].dt_txt))

\* the input without its samples whose timestamp has no separator
RECURSIVE WithoutMalformed(_)
WithoutMalformed(items) ==
    IF items = <<>> THEN <<>>
    ELSE IF \E i \in 1..Len(Head(items).dt_txt) : Head(items).dt_txt[i] = " "
         THEN <<Head(items)>> \o WithoutMalformed(Tail(items))
         ELSE WithoutMalformed(Tail(items))

\* C4: a sample whose timestamp has no date/time separator is excluded from
\* the output, and the other samples are reduced as if it were not in the
\* input.
C4_MalformedSkipped ==
    /\ \A i \in 1..Len(daily) : daily[i].dt_txt # BadStamp
    /\ daily = getDailyForecast(WithoutMalformed(list))


FaithfulCelsius(f, out) ==
    LET k == IF f < 32 THEN 32 - f ELSE f - 32
        exact9 == ShiftLeft(Digits(5 * k), 0 - out.exp)
        out9 == MulSmall(out.mant, 9)
        gap == IF LessN(exact9, out9) THEN SubN(out9, exact9)
               ELSE SubN(exact9, out9)
    IN  IF k = 0 THEN out = Zero
        ELSE /\ out.neg = (f < 32)
             /\ out.exp < 0
             /\ BitLen(out.mant) = Precision
             /\ LessN(gap, Digits(9))

\* C6: toTemp returns its argument unchanged when the unit is imperial and
\* (value - 32) * 5/9, as a double, when the unit is metric; there 32 gives
\* exactly 0 and 212 gives exactly 100.
C6_ToTemp ==
    (cPc = "return" /\ cFn = "toTemp") =>
        /\ cUnit = "imperial" => cOut = FromInt(cVal)
        /\ cUnit = "metric" => FaithfulCelsius(cVal, cOut)
        /\ (cUnit = "metric" /\ cVal = 32) => cOut = FromInt(0)
        /\ (cUnit = "metric" /\ cVal = 212) => cOut = FromInt(100)

\* C6 witness: toTemp has returned exactly 100 for 212 in metric
C6_Witness ==
    /\ cPc = "return"
    /\ cFn = "toTemp"
    /\ cUnit = "metric"
    /\ cVal = 212
    /\ cOut = FromInt(100)

(***************************************************************************)
(* Properties of the component, checked under Spec.                        *)
(***************************************************************************)
\* the phrase the component is to show for a condition code
PhraseFor(code) ==
    CASE code = "Clear" -> "It's sunny today!"
      [] code = "Clouds" -> "It's cloudy today!"
      [] code = "Rain" -> "It's rainy today!"
      [] code = "Thunderstorm" -> "Thunderstorms ahead"
      [] code = "Snow" -> "It's snowing today!"
      [] code = "Drizzle" -> "It's drizzling today!"
      [] code = "Mist" -> "It's misty today!"
      [] OTHER -> "Weather: " \o code

\* C7: getDescription gives each of the seven condition codes, matched
\* exactly, its own phrase, and every other code "Weather: <code>".
C7_Description ==
    "weather" \in DOMAIN data =>
        /\ getDescription(data.weather) = PhraseFor(data.weather[1].main)
        /\ data.weather[1].main \notin videoMap =>
              getDescription(data.weather) \notin {PhraseFor(c) : c \in videoMap}

\* C7 witness: the weather shown has the code "Tornado" and the fallback
\* phrase names it
C7_Witness ==
    /\ "weather" \in DOMAIN data
    /\ data.weather[1].main = "Tornado"
    /\ getDescription(data.weather) = "Weather: Tornado"

\* C8: a search that fails at any of its three requests, a geocode reply
\* without match included, raises the alert exactly once, a search that
\* does not fail raises none, and the step that ends a search, failed or
\* not, leaves the search input empty.
C8_AlertOnceAndClear ==
    /\ [](\A i \in 1..MaxSearches :
            LET s == searches[i]
            IN  /\ InFlight(s) => (s.alerts = 0 /\ s.failed = "")
                /\ s.pc = "done" =>
                      s.alerts = (IF s.failed # "" THEN 1 ELSE 0))
    /\ [][\A i \in 1..MaxSearches :
            (InFlight(searches[i]) /\ searches'[i].pc = "done")
                => location' = ""]_vars

\* C8 witness: a search whose forecast request failed is over, with one
\* alert, and the input is empty
C8_Witness ==
    \E i \in 1..MaxSearches :
        /\ searches[i].pc = "done"
        /\ searches[i].failed = "forecast"
        /\ searches[i].alerts = 1
        /\ location = ""

\* C9: every temperature and wind speed held in data and forecastData is
\* in the imperial unit, whatever unit was selected when the search ran,
\* and the temperature displayed is the real one in the selected unit.
C9_StoredImperial ==
    /\ "main" \in DOMAIN data =>
          /\ data.main.temp = ApiTemp(data.name, "imperial")
          /\ data.wind.speed = ApiWind(data.name, "imperial")
          /\ toTemp(unit, FromInt(data.main.temp))
                = FromInt(ApiTemp(data.name, unit))
    /\ \A k \in 1..Len(forecastData) :
          forecastData[k].main.temp \in {ApiTemp(c, "imperial") : c \in Cities}

\* C10: once no search is in flight, a background video that is shown has
\* loaded, or its element is still to fire onLoadedData: every search,
\* failed or repeated ones included, is followed by videoLoaded = true.
C10_VideoReloads ==
    (/\ mounted
     /\ \A i \in 1..MaxSearches : ~InFlight(searches[i])
     /\ videoShown)
        => (videoLoaded \/ video.pending)


\* locationInfo, forecastData and data are all as first rendered, or all
\* three are what one successful search for one place stores
SameSearch ==
    \/ (locationInfo = <<>> /\ forecastData = <<>> /\ data = <<>>)
    \/ \E c \in Cities, u \in Units :
          /\ locationInfo = Geo(c)
          /\ forecastData =
                getDailyForecast(ForecastReply(Geo(c).lat, Geo(c).lon, u).list)
          /\ data \in WeatherReplies(Geo(c).lat, Geo(c).lon, u)

\* C11: with searches run one at a time, a failed search leaves
\* locationInfo, forecastData and data unchanged, so whenever no search is
\* in flight the three come from the same successful search or are all
\* initial.  Stated for the page while it is shown and for the first search
\* alone, the least case of searches run one at a time.
C11_FailedSearchKeepsState ==
    (/\ mounted
     /\ \A i \in 1..MaxSearches : ~InFlight(searches[i])
     /\ \A i \in 2..MaxSearches : searches[i] = Idle)
        => SameSearch

\* C12: locationInfo is never undefined, a geocode reply that is an empty
\* list included, so the render of locationInfo.name never throws and the
\* component stays mounted.
C12_LocationInfoDefined == locationInfo # Undefined /\ mounted

====
